---- MODULE Spec2Model ----
(***************************************************************************)
(* The SlipTalk game/settings store (src/src/stores/settings.ts, the       *)
(* multi-game version, lines 141-378).                                     *)
(*                                                                         *)
(* JavaScript objects are modelled with their identity where the code      *)
(* shares them: the module constant defaultSettings, the object            *)
(* initialSettings the store is created with, the games array either one   *)
(* refers to, and the Game objects the arrays hold (gameObjs, keyed by the *)
(* game id, which crypto.randomUUID makes unique).  A store state is the   *)
(* record                                                                  *)
(*   [defaultSettings, initialSettings, storeRef, sharedGames, gameObjs,   *)
(*    shape, slot, storageFull, raised, subscription, delivered, phrases,    *)
(*    totalScore]                                                          *)
(* and every store operation is an operator from store states to store     *)
(* states, which the actions below apply to the variables.  The page       *)
(* (src/unnamed/part_000) subscribes to the store; what its callback keeps *)
(* (phrases, totalScore) is part of the record because every operation     *)
(* runs the callback before it returns.                                    *)
(***************************************************************************)
EXTENDS Integers, Sequences, FiniteSets, TLC

\* ---------------------------------------------------------------- bounds
MaxGameIds == 1      \* crypto.randomUUID() calls made for games
MaxBatchIds == 1     \* crypto.randomUUID() calls made for batches
MaxClock == 1        \* ticks of the wall clock read by new Date()
MaxSortGames == 3    \* games in the lists given to getSortedGames
MaxToggleIndex == 1   \* the displayed phrases the player clicks: the first ones
MaxInFlight == 2     \* generation requests in flight at once

\* ------------------------------------------------------------- constants
Null == 0            \* JavaScript null (ids are 1, 2, ...)
PersistedId == 9     \* an id handed out before the slot was written
NoName == "<omitted>"   \* createGame() called without its argument
DefaultName == "New Game"

GameIds == 1..MaxGameIds \cup {PersistedId}
BatchIds == 1..MaxBatchIds \cup {PersistedId}

\* The names a caller passes to createGame (blank, or none at all) and to
\* renameGame.
CreateNames == {"", NoName}
RenameNames == {DefaultName}

\* The three phrases of a batch as the page builds them (used: false).
SomePhrases ==
    << [text |-> "p1", points |-> 1, used |-> FALSE],
       [text |-> "p2", points |-> 2, used |-> FALSE],
       [text |-> "p3", points |-> 3, used |-> FALSE] >>

NoBatch == [id |-> Null, timestamp |-> 0, phrases |-> <<>>]

\* ------------------------------------------------------------- sequences
RECURSIVE SeqToSet(_)
SeqToSet(s) == IF s = <<>> THEN {} ELSE {Head(s)} \cup SeqToSet(Tail(s))

NoObjs == [g \in {} |-> Null]

\* ------------------------------------------------------- the durable slot
\* localStorage[STORAGE_KEY]: absent, text that is not JSON, or JSON text.
EmptyDoc == [games |-> <<>>, currentGameId |-> Null]
AbsentSlot == [kind |-> "absent", doc |-> EmptyDoc]
CorruptSlot == [kind |-> "corrupt", doc |-> EmptyDoc]

\* A slot holding one game with one batch, written when games carried no
\* isCollapsed field (the field is optional in the Game interface).
LegacyGame ==
    [id |-> PersistedId, name |-> "Old", timestamp |-> 0,
     batches |-> <<[id |-> PersistedId, timestamp |-> 0,
                    phrases |-> SomePhrases]>>]
LegacySlot == [kind |-> "json",
               doc |-> [games |-> <<LegacyGame>>,
                        currentGameId |-> PersistedId]]

InitSlots == {AbsentSlot, CorruptSlot, LegacySlot}

\* Text that parses but is no Settings value: the object an older version of
\* the store wrote under the same key ({theme, hasExplicitTheme}, lines
\* 4-13 and 61), and the text "null".
\* The aggregate reset() leaves once games were pushed to the shared games
\* array: games with no current game; and an aggregate whose currentGameId
\* names no game (text written by something other than this store).
DanglingId == 8
NullCurrentSlot == [LegacySlot EXCEPT !.doc.currentGameId = Null]
DanglingSlot == [LegacySlot EXCEPT !.doc.currentGameId = DanglingId]
PageSlots == {AbsentSlot, LegacySlot, NullCurrentSlot, DanglingSlot}

OldSchemaSlot == [kind |-> "oldschema", doc |-> EmptyDoc]
NullSlot == [kind |-> "null", doc |-> EmptyDoc]
InvalidSlots == {OldSchemaSlot, NullSlot}

\* The object literal of lines 170-173.
defaultSettingsLiteral == [games |-> <<>>, currentGameId |-> Null]

\* The value held by the writable: the object the store currently refers to.
Value(st) ==
    IF st.storeRef = "defaultSettings" THEN st.defaultSettings
    ELSE st.initialSettings

\* JSON.stringify(obj) for a Settings object: the array of game references
\* becomes the nested text of the Game objects they refer to.
stringify(st, obj) ==
    [kind |-> "json",
     doc |-> [games |-> [i \in 1..Len(obj.games) |-> st.gameObjs[obj.games[i]]],
              currentGameId |-> obj.currentGameId]]

\* saveToLocalStorage without the try/catch of lines 201-206.
saveToLocalStorageNoCatch(st, obj) ==
    IF st.storageFull THEN [st EXCEPT !.raised = TRUE]
    ELSE [st EXCEPT !.slot = stringify(st, obj)]

\* saveToLocalStorage(settings), lines 199-208.  When the storage is full
\* setItem throws, which is caught and logged.
saveToLocalStorage(st, obj) ==
    IF st.storageFull THEN st
    ELSE [st EXCEPT !.slot = stringify(st, obj)]

\* Drop the Game objects no array refers to any more (garbage).
Collect(st) ==
    LET live == SeqToSet(st.defaultSettings.games)
                    \cup SeqToSet(st.initialSettings.games)
    IN  [st EXCEPT !.gameObjs = [g \in live |-> st.gameObjs[g]]]

\* Assigning the fields of the object the store refers to.  reassigned is
\* TRUE when settings.games is given a new array (settings.games = ...) and
\* FALSE when the array is changed in place (push) or left alone.
WriteValue(st, games, current, reassigned) ==
    IF st.storeRef = "defaultSettings"
    THEN Collect([st EXCEPT
            !.defaultSettings = [games |-> games, currentGameId |-> current],
            !.initialSettings = [games |-> games, currentGameId |-> current]])
    ELSE Collect([st EXCEPT
            !.initialSettings = [games |-> games, currentGameId |-> current],
            !.defaultSettings =
                IF st.sharedGames /\ ~reassigned
                THEN [st.defaultSettings EXCEPT !.games = games]
                ELSE st.defaultSettings,
            !.sharedGames = st.sharedGames /\ ~reassigned])

\* ------------------------------------------------------- store creation
\* JSON.parse of the slot's text: fresh objects, nothing shared.
parseThrows(slot) == slot.kind = "corrupt"

\* The store made of the parsed text with the games in reverse order.
ParsedStoreReversed(slot) ==
    [defaultSettings |-> defaultSettingsLiteral,
     initialSettings |->
         [games |-> [i \in 1..Len(slot.doc.games) |->
                        slot.doc.games[Len(slot.doc.games) + 1 - i].id],
          currentGameId |-> slot.doc.currentGameId],
     storeRef |-> "initialSettings",
     sharedGames |-> FALSE,
     gameObjs |-> [g \in {slot.doc.games[i].id : i \in 1..Len(slot.doc.games)} |->
                     LET i == CHOOSE j \in 1..Len(slot.doc.games) :
                                  slot.doc.games[j].id = g
                     IN  slot.doc.games[i]],
     shape |-> (IF slot.kind = "json" THEN "ok"
                ELSE IF slot.kind = "oldschema" THEN "nogames" ELSE "null"),
     slot |-> slot,
     storageFull |-> FALSE,
     raised |-> FALSE,
     subscription |-> "none",
     delivered |-> <<>>,
     phrases |-> <<>>,
     totalScore |-> 0]

\* The store made of the parsed text (line 188).  shape tells what the text
\* held: a Settings value ("ok"), an object without a games array
\* ("nogames", its currentGameId is undefined, which every test of the code
\* treats like null) or null ("null").
ParsedStore(slot) ==
    [defaultSettings |-> defaultSettingsLiteral,
     initialSettings |->
         [games |-> [i \in 1..Len(slot.doc.games) |-> slot.doc.games[i].id],
          currentGameId |-> slot.doc.currentGameId],
     storeRef |-> "initialSettings",
     sharedGames |-> FALSE,
     gameObjs |-> [g \in {slot.doc.games[i].id : i \in 1..Len(slot.doc.games)} |->
                     LET i == CHOOSE j \in 1..Len(slot.doc.games) :
                                  slot.doc.games[j].id = g
                     IN  slot.doc.games[i]],
     shape |-> (IF slot.kind = "json" THEN "ok"
                ELSE IF slot.kind = "oldschema" THEN "nogames" ELSE "null"),
     slot |-> slot,
     storageFull |-> FALSE,
     raised |-> FALSE,
     subscription |-> "none",
     delivered |-> <<>>,
     phrases |-> <<>>,
     totalScore |-> 0]

\* The store made of { ...defaultSettings } (line 181): a shallow copy, whose
\* games array is the array of defaultSettings itself.
SpreadStore(slot) ==
    [defaultSettings |-> defaultSettingsLiteral,
     initialSettings |-> defaultSettingsLiteral,
     storeRef |-> "initialSettings",
     sharedGames |-> TRUE,
     gameObjs |-> NoObjs,
     shape |-> "ok",
     slot |-> slot,
     storageFull |-> FALSE,
     raised |-> FALSE,
     subscription |-> "none",
     delivered |-> <<>>,
     phrases |-> <<>>,
     totalScore |-> 0]

\* createSettingsStore without the try/catch around JSON.parse.
createSettingsStoreNoCatch(slot) ==
    IF slot.kind = "absent" THEN SpreadStore(slot)
    ELSE IF parseThrows(slot) THEN [SpreadStore(slot) EXCEPT !.raised = TRUE]
    ELSE ParsedStore(slot)

\* createSettingsStore(), lines 179-196.  A parse error is caught at line
\* 190 and leaves initialSettings as it was.
createSettingsStore(slot) ==
    IF slot.kind = "absent" THEN SpreadStore(slot)
    ELSE IF parseThrows(slot) THEN SpreadStore(slot)
    ELSE ParsedStore(slot)

\* ---------------------------------------------------------- subscription
\* calculateScore, part_000 lines 119-122.
RECURSIVE SumUsed(_)
SumUsed(ps) ==
    IF ps = <<>> THEN 0
    ELSE (IF Head(ps).used THEN Head(ps).points ELSE 0) + SumUsed(Tail(ps))

\* calculateScore leaving the score as it is.
calculateScoreStale(st) == st

calculateScore(st) == [st EXCEPT !.totalScore = SumUsed(st.phrases)]

\* The page's subscriber, part_000 lines 345-364.  settingsData is the very
\* object the store holds, so the missing games array is added to the
\* store's value; reading settingsData.games of null throws.
callback(st) ==
    IF st.shape = "null" THEN [st EXCEPT !.raised = TRUE]
    ELSE LET st1 == [st EXCEPT !.shape = "ok",
                               !.delivered = Append(@, stringify(st, Value(st)).doc)]
             settings == Value(st1)
             current == settings.currentGameId
             shown == current # Null
                        /\ current \in SeqToSet(settings.games)
                        /\ st1.gameObjs[current].batches # <<>>
         IN  IF shown
             THEN calculateScore([st1 EXCEPT
                      !.phrases = st1.gameObjs[current].batches[1].phrases])
             ELSE st1

\* The writable's set(value), line 196: the value is an object, so every
\* set runs the subscriber, in the call that made it.  subscription is
\* "none" before subscribe is called, "active" after it and "ended" once
\* the function subscribe returned has been called.
set(st) == IF st.subscription = "active" THEN callback(st) ELSE st

\* An updater that throws: update() of line 242 has no try/catch, the
\* value stays and the error reaches the caller.
Throw(st) == [st EXCEPT !.raised = TRUE]

\* if (!settings.games) { settings.games = []; return settings; } on a value
\* without a games array (lines 269-272); on null the test itself throws.
GuardGames(st) ==
    IF st.shape = "null" THEN Throw(st) ELSE set([st EXCEPT !.shape = "ok"])

\* ------------------------------------------------------ store operations
\* A default that also replaces a blank name.
ResolveNameBlank(name) ==
    IF name = NoName \/ name = "" THEN DefaultName ELSE name

\* The default parameter of createGame (name: string = 'New Game').
ResolveName(name) == IF name = NoName THEN DefaultName ELSE name

HasGame(st, gameId) == gameId \in SeqToSet(Value(st).games)

\* createGame putting the new game first (unshift for push).
createGameUnshift(st, name, id, now) ==
    LET settings == Value(st)
        newGame == [id |-> id, name |-> ResolveName(name), timestamp |-> now,
                    batches |-> <<>>, isCollapsed |-> FALSE]
        st1 == [st EXCEPT !.gameObjs = (id :> newGame) @@ st.gameObjs]
        st2 == WriteValue(st1, <<id>> \o settings.games, id, FALSE)
    IN  set(saveToLocalStorage(st2, Value(st2)))

\* createGame, lines 241-265.  id is crypto.randomUUID(), now is new Date().
\* A value without a games array is given one (lines 244-246).
createGame(st, name, id, now) ==
    IF st.shape = "null" THEN Throw(st)
    ELSE
        LET settings == Value(st)
            newGame == [id |-> id, name |-> ResolveName(name), timestamp |-> now,
                        batches |-> <<>>, isCollapsed |-> FALSE]
            st1 == [st EXCEPT !.shape = "ok",
                              !.gameObjs = (id :> newGame) @@ st.gameObjs]
            st2 == WriteValue(st1, Append(settings.games, id), id, FALSE)
        IN  set(saveToLocalStorage(st2, Value(st2)))

\* addBatchToGame appending the batch (push for unshift).
addBatchToGameAppend(st, gameId, batch) ==
    IF HasGame(st, gameId)
    THEN LET st1 == [st EXCEPT !.gameObjs[gameId].batches = Append(@, batch)]
         IN  set(saveToLocalStorage(st1, Value(st1)))
    ELSE set(st)

\* addBatchToGame falling back to the first game when gameId matches none.
addBatchToGameFirst(st, gameId, batch) ==
    LET target == IF HasGame(st, gameId) \/ Value(st).games = <<>>
                  THEN gameId ELSE Value(st).games[1]
    IN  IF HasGame(st, target)
        THEN LET st1 == [st EXCEPT !.gameObjs[target].batches = <<batch>> \o @]
             IN  set(saveToLocalStorage(st1, Value(st1)))
        ELSE set(st)

\* addBatchToGame giving the batch to every game (no id test in the find).
addBatchToGameEvery(st, gameId, batch) ==
    LET games == SeqToSet(Value(st).games)
        st1 == [st EXCEPT !.gameObjs =
                   [g \in DOMAIN @ |->
                       IF g \in games
                       THEN [@[g] EXCEPT !.batches = <<batch>> \o @]
                       ELSE @[g]]]
    IN  set(saveToLocalStorage(st1, Value(st1)))

\* addBatchToGame, lines 266-290.
addBatchToGame(st, gameId, batch) ==
    IF st.shape # "ok" THEN GuardGames(st)
    ELSE
        IF HasGame(st, gameId)
        THEN LET st1 == [st EXCEPT !.gameObjs[gameId].batches = <<batch>> \o @]
             IN  set(saveToLocalStorage(st1, Value(st1)))
        ELSE set(st)

\* removeBatch keeping the batch named and dropping the others (=== for
\* !== in the filter).
removeBatchKeepOnly(st, gameId, batchId) ==
    IF HasGame(st, gameId)
    THEN LET Keep(b) == b.id = batchId
             st1 == [st EXCEPT !.gameObjs[gameId].batches = SelectSeq(@, Keep)]
         IN  set(saveToLocalStorage(st1, Value(st1)))
    ELSE set(st)

\* removeBatch, lines 291-307.
removeBatch(st, gameId, batchId) ==
    IF st.shape # "ok" THEN GuardGames(st)
    ELSE
        IF HasGame(st, gameId)
        THEN LET Keep(b) == b.id # batchId
                 st1 == [st EXCEPT !.gameObjs[gameId].batches = SelectSeq(@, Keep)]
             IN  set(saveToLocalStorage(st1, Value(st1)))
        ELSE set(st)

\* removeGame without the reassignment of lines 319-321.
removeGameKeepCurrent(st, gameId) ==
    LET settings == Value(st)
        Keep(g) == g # gameId
        st1 == WriteValue(st, SelectSeq(settings.games, Keep),
                          settings.currentGameId, TRUE)
    IN  set(saveToLocalStorage(st1, Value(st1)))

\* removeGame leaving no game current when the current one is removed.
removeGameNull(st, gameId) ==
    LET settings == Value(st)
        Keep(g) == g # gameId
        games == SelectSeq(settings.games, Keep)
        current == IF settings.currentGameId = gameId
                   THEN Null
                   ELSE settings.currentGameId
        st1 == WriteValue(st, games, current, TRUE)
    IN  set(saveToLocalStorage(st1, Value(st1)))

\* removeGame, lines 308-327.
removeGame(st, gameId) ==
    IF st.shape # "ok" THEN GuardGames(st)
    ELSE
        LET settings == Value(st)
            Keep(g) == g # gameId
            games == SelectSeq(settings.games, Keep)
            current == IF settings.currentGameId = gameId
                       THEN (IF Len(games) > 0 THEN games[1] ELSE Null)
                       ELSE settings.currentGameId
            st1 == WriteValue(st, games, current, TRUE)
        IN  set(saveToLocalStorage(st1, Value(st1)))

\* setCurrentGame without the existence check of lines 331-333.
setCurrentGameUnchecked(st, gameId) ==
    LET st1 == WriteValue(st, Value(st).games, gameId, FALSE)
    IN  set(saveToLocalStorage(st1, Value(st1)))

\* setCurrentGame, lines 328-341.
setCurrentGame(st, gameId) ==
    IF st.shape = "null" THEN Throw(st)
    ELSE IF st.shape = "nogames" THEN set(st)
    ELSE
        LET settings == Value(st)
        IN  IF Len(settings.games) > 0 /\ HasGame(st, gameId)
            THEN LET st1 == WriteValue(st, settings.games, gameId, FALSE)
                 IN  set(saveToLocalStorage(st1, Value(st1)))
            ELSE set(st)

\* Collapsing instead of toggling.
NotCollapsedAlways(game) == TRUE

\* !game.isCollapsed: a missing field reads as undefined, which is falsy.
NotCollapsed(game) ==
    IF "isCollapsed" \in DOMAIN game THEN ~game.isCollapsed ELSE TRUE

\* toggleGameCollapsed, lines 342-357.
toggleGameCollapsed(st, gameId) ==
    IF st.shape # "ok" THEN GuardGames(st)
    ELSE
        IF HasGame(st, gameId)
        THEN LET game == st.gameObjs[gameId]
                 toggled == ("isCollapsed" :> NotCollapsed(game)) @@ game
                 st1 == [st EXCEPT !.gameObjs[gameId] = toggled]
             IN  set(saveToLocalStorage(st1, Value(st1)))
        ELSE set(st)

\* renameGame putting a new game object in place of the game found.
renameGameFresh(st, gameId, newName) ==
    IF HasGame(st, gameId)
    THEN LET fresh == [id |-> gameId, name |-> newName,
                       timestamp |-> st.gameObjs[gameId].timestamp,
                       batches |-> <<>>, isCollapsed |-> FALSE]
             st1 == [st EXCEPT !.gameObjs[gameId] = fresh]
         IN  set(saveToLocalStorage(st1, Value(st1)))
    ELSE set(st)

\* renameGame without the save of line 366.
renameGameNoSave(st, gameId, newName) ==
    IF HasGame(st, gameId)
    THEN set([st EXCEPT !.gameObjs[gameId].name = newName])
    ELSE set(st)

\* renameGame, lines 358-374.
renameGame(st, gameId, newName) ==
    IF st.shape # "ok" THEN GuardGames(st)
    ELSE
        IF HasGame(st, gameId)
        THEN LET st1 == [st EXCEPT !.gameObjs[gameId].name = newName]
             IN  set(saveToLocalStorage(st1, Value(st1)))
        ELSE set(st)

\* reset that saves but does not set.
resetSilently(st) ==
    LET st1 == saveToLocalStorage(st, st.defaultSettings)
    IN  Collect([st1 EXCEPT !.storeRef = "defaultSettings",
                            !.initialSettings = st.defaultSettings,
                            !.sharedGames = TRUE,
                            !.shape = "ok"])

\* reset, lines 232-239: the store now refers to defaultSettings itself.
reset(st) ==
    LET st1 == saveToLocalStorage(st, st.defaultSettings)
    IN  set(Collect([st1 EXCEPT !.storeRef = "defaultSettings",
                                !.initialSettings = st.defaultSettings,
                                !.sharedGames = TRUE,
                                !.shape = "ok"]))

\* ----------------------------------------------------------------- the page
\* What POST /api/generate and the network can answer: 3 phrases with
\* status 200 (+server.ts line 246), the server's fallback with status 429,
\* 500 or 503 (lines 91, 211, 255, 265), no answer at all, a body that is no
\* JSON, and a JSON body that is no array.
Outcomes == {"ok", "notOk", "networkError", "notJSON", "notArray"}

ServerPhrases ==
    <<[text |-> "s1", points |-> 1],
      [text |-> "s2", points |-> 2],
      [text |-> "s3", points |-> 3]>>

\* fallbackPhrases, part_000 lines 62-68.
fallbackPhrases ==
    <<[text |-> "I always forget about my elbows", points |-> 1],
      [text |-> "You ever think pigeons are spies?", points |-> 2],
      [text |-> "They banned me from the aquarium for tickling the stingrays",
       points |-> 3]>>

\* generateAIPhrases, part_000 lines 29-59: what the promise resolves to.
\* A failure gives the fallback phrases; a body that parses is returned as
\* it is, an array or not.
generateAIPhrases(outcome) ==
    IF outcome = "ok" THEN [isArray |-> TRUE, phrases |-> ServerPhrases]
    ELSE IF outcome = "notArray" THEN [isArray |-> FALSE, phrases |-> <<>>]
    ELSE [isArray |-> TRUE, phrases |-> fallbackPhrases]

\* generatedPhrases.map(phrase => ({...phrase, used: false})), lines 74-77.
withUsed(generated) ==
    [i \in 1..Len(generated) |->
        [text |-> generated[i].text, points |-> generated[i].points,
         used |-> FALSE]]

\* 'Game ' + new Date().toLocaleDateString(), lines 91 and 376.
DatedName == "Game <date>"

\* The test of lines 369-374 without its last disjunct.
needsInitialGameNoDangling(st) ==
    \/ Len(Value(st).games) = 0
    \/ Value(st).currentGameId = Null

\* The test of the startup check, lines 369-374, and of initPhrases, lines
\* 87-90 (where an empty games list has no current game either).
needsInitialGame(st) ==
    \/ Len(Value(st).games) = 0
    \/ Value(st).currentGameId = Null
    \/ ~HasGame(st, Value(st).currentGameId)

\* The game a finished cycle would take had it kept the game it was
\* started for.
attachToStarted(st, cycle) == cycle.startedFor

\* settings.addBatchToGame(settingsData.currentGameId, newBatch), line 95:
\* the game is read when the request has settled.
attachTo(st, cycle) == Value(st).currentGameId

\* phrases = JSON.parse(JSON.stringify(game.batches[0].phrases)) when the
\* game has batches (lines 212-217, 263-268, 289-294); starts tells that
\* initPhrases() is called instead.
showOrGenerate(st, gameId) ==
    IF HasGame(st, gameId) /\ st.gameObjs[gameId].batches # <<>>
    THEN [store |-> calculateScore(
                        [st EXCEPT !.phrases = st.gameObjs[gameId].batches[1].phrases]),
          starts |-> FALSE]
    ELSE [store |-> calculateScore(st), starts |-> TRUE]

\* createNewGame, part_000 lines 199-206; name is newGameName.trim().
createNewGame(st, name, id, time) ==
    IF name # ""
    THEN [store |-> createGame(st, name, id, time), starts |-> TRUE]
    ELSE [store |-> st, starts |-> FALSE]

\* selectGame, part_000 lines 208-223.
selectGame(st, gameId) == showOrGenerate(setCurrentGame(st, gameId), gameId)

\* removeGame of the page, part_000 lines 255-276.
pageRemoveGame(st, gameId) ==
    LET st1 == removeGame(st, gameId)
    IN  IF Value(st1).currentGameId # Null
        THEN showOrGenerate(st1, Value(st1).currentGameId)
        ELSE [store |-> calculateScore(st1), starts |-> FALSE]

\* removeBatch of the page, part_000 lines 283-304.
pageRemoveBatch(st, gameId, batchId) ==
    LET st1 == removeBatch(st, gameId, batchId)
    IN  IF Value(st1).currentGameId = gameId
        THEN showOrGenerate(st1, gameId)
        ELSE [store |-> calculateScore(st1), starts |-> FALSE]

\* The part of initPhrases after the await, lines 73-97.  map is no
\* function of a value that is no array: the call throws and initPhrases
\* rejects.  Otherwise the batch goes to the current game, which is created
\* first when there is none.
finishInitPhrases(st, cycle, generated, gameId, batchId, time) ==
    IF ~generated.isArray THEN Throw(st)
    ELSE
        LET st1 == [st EXCEPT !.phrases = withUsed(generated.phrases)]
            newBatch == [id |-> batchId, timestamp |-> time,
                         phrases |-> withUsed(generated.phrases)]
            st2 == IF needsInitialGame(st1)
                   THEN createGame(st1, DatedName, gameId, time)
                   ELSE st1
        IN  addBatchToGame(st2, attachTo(st2, cycle), newBatch)

\* settings.update((s) => s), settings.ts lines 220-231: the value is
\* saved and set again, which runs the subscriber.
updateSame(st) == set(saveToLocalStorage(st, Value(st)))

\* The current game has a newest batch: the test of part_000 lines 130-134
\* and 166-170.
HasLatestBatch(st) ==
    /\ Value(st).currentGameId # Null
    /\ HasGame(st, Value(st).currentGameId)
    /\ st.gameObjs[Value(st).currentGameId].batches # <<>>

\* togglePhraseUsed that changes the displayed phrase only.
togglePhraseUsedShownOnly(st, index) ==
    calculateScore([st EXCEPT !.phrases[index].used = ~@])

\* togglePhraseUsed, part_000 lines 125-149; index counts from 1 here.
togglePhraseUsed(st, index) ==
    LET st1 == [st EXCEPT !.phrases[index].used = ~@]
        current == Value(st1).currentGameId
    IN  IF HasLatestBatch(st1)
           /\ index <= Len(st1.gameObjs[current].batches[1].phrases)
        THEN calculateScore(updateSame(
                 [st1 EXCEPT !.gameObjs[current].batches[1].phrases[index].used =
                                 st1.phrases[index].used]))
        ELSE calculateScore(st1)

\* phrases.map((phrase) => ({ ...phrase, used: false })), lines 160-163 and
\* 172-175.
unused(ps) == [i \in 1..Len(ps) |-> [ps[i] EXCEPT !.used = FALSE]]

\* resetScore when isConfirmingReset holds, part_000 lines 158-181.
resetScore(st) ==
    LET st1 == [st EXCEPT !.phrases = unused(@)]
        current == Value(st1).currentGameId
    IN  IF HasLatestBatch(st1)
        THEN calculateScore(updateSame(
                 [st1 EXCEPT !.gameObjs[current].batches[1].phrases = unused(@)]))
        ELSE calculateScore(st1)

\* ---------------------------------------------------------- the games list
\* new Date(timestamp).getTime(): timestamps are written by toISOString(),
\* which keeps the milliseconds, so parsing gives back the instant written.
\* The model's timestamps are these instants.
getTime(timestamp) == timestamp

\* getLastActiveTime ignoring the batches.
getLastActiveTimeOwn(game) == game.timestamp

\* getLastActiveTime, part_000 lines 319-328.
getLastActiveTime(game) ==
    IF game.batches # <<>> THEN game.batches[1].timestamp ELSE game.timestamp

\* The comparator of line 335-339: negative when a goes first.
compare(st, a, b) ==
    getTime(getLastActiveTime(st.gameObjs[b]))
        - getTime(getLastActiveTime(st.gameObjs[a]))

\* Array.prototype.sort is stable: an element goes after every element the
\* comparator does not put behind it.
RECURSIVE insert(_, _, _)
insert(st, g, seq) ==
    IF seq = <<>> THEN <<g>>
    ELSE IF compare(st, Head(seq), g) <= 0
         THEN <<Head(seq)>> \o insert(st, g, Tail(seq))
         ELSE <<g>> \o seq

RECURSIVE sort(_, _)
sort(st, games) ==
    IF games = <<>> THEN <<>>
    ELSE insert(st, games[Len(games)], sort(st, SubSeq(games, 1, Len(games) - 1)))

\* getSortedGames, part_000 lines 331-340.  settingsData is the store's
\* value once the subscriber has run, undefined before.  The result is a
\* new array ([...settingsData.games]) of the same games.
getSortedGames(st) ==
    IF st.subscription = "none" THEN <<>> ELSE sort(st, Value(st).games)

\* ------------------------------------- the endpoint POST /api/generate
MaxTexts == 105    \* texts the upstream model produces before it repeats

\* The value undefined where a text is expected.
Undefined == "<undefined>"

\* The i-th text of the upstream model.
T(i) == "t" \o ToString(i)

\* An element of the array the upstream text holds: an object (with its
\* text property, Undefined when it has none) or null.
Obj(text) == [isObject |-> TRUE, text |-> text]
NullElement == [isObject |-> FALSE, text |-> Undefined]

\* Response headers: a function from header names to values.
NoHeaders == [h \in {} |-> ""]
NoStore == [h \in {"Cache-Control"} |-> "no-store"]

\* headers.get(name): the value, or null (here Undefined) without one.
get(headers, name) ==
    IF name \in DOMAIN headers THEN headers[name] ELSE Undefined

\* The arrays the upstream text can hold when n texts are the next fresh
\* ones: three phrases (old ones, fresh ones, or one of them twice), two
\* phrases, four phrases, a null among three, an object without text among
\* three.  fresh is the number of fresh texts used.
UpstreamArrays(n) ==
    {[elements |-> <<Obj(T(1)), Obj(T(2)), Obj(T(3))>>, fresh |-> 0],
     [elements |-> <<Obj(T(1)), Obj(T(2))>>, fresh |-> 0],
     [elements |-> <<Obj(T(1)), Obj(T(2)), Obj(T(3)), Obj(T(1))>>,
      fresh |-> 0],
     [elements |-> <<Obj(T(1)), NullElement, Obj(T(3))>>, fresh |-> 0],
     [elements |-> <<Obj(T(1)), Obj(Undefined), Obj(T(3))>>, fresh |-> 0]}
    \cup (IF n + 2 <= MaxTexts
          THEN {[elements |-> <<Obj(T(n)), Obj(T(n + 1)), Obj(T(n + 2))>>,
                 fresh |-> 3],
                [elements |-> <<Obj(T(n)), Obj(T(n)), Obj(T(n + 1))>>,
                 fresh |-> 2]}
          ELSE {})

\* What the upstream service does with one request: fetch rejects, or it
\* resolves with a status and headers; the body of a failure can be read
\* as text or not; the body of a success is no JSON, JSON without
\* candidates, a text without an array in it, a text whose bracketed part
\* is no JSON, or a text holding an array.
UpstreamAnswer(fetch, status, headers, readable, body, array) ==
    [fetch |-> fetch, status |-> status, headers |-> headers,
     readable |-> readable, body |-> body, elements |-> array.elements,
     fresh |-> array.fresh]

NoArray == [elements |-> <<>>, fresh |-> 0]

RetryAfterHeaders ==
    {NoHeaders, [h \in {"Retry-After"} |-> ""],
     [h \in {"Retry-After"} |-> "30"]}

Upstreams(n) ==
    {UpstreamAnswer("rejects", 0, NoHeaders, FALSE, "none", NoArray)}
    \cup {UpstreamAnswer("resolves", status, headers, readable, "none",
                         NoArray) :
            status \in {429, 500}, headers \in RetryAfterHeaders,
            readable \in BOOLEAN}
    \cup {UpstreamAnswer("resolves", 200, NoHeaders, TRUE, body, NoArray) :
            body \in {"notJSON", "noCandidates", "noMatch", "badJSON"}}
    \cup {UpstreamAnswer("resolves", 200, NoHeaders, TRUE, "array", array) :
            array \in UpstreamArrays(n)}

\* response.ok
ok(status) == status \in 200..299

\* manageStoredPhrases, +server.ts lines 57-66, without the reset.
manageStoredPhrasesNoReset(stored, newPhrases) ==
    stored \cup SeqToSet(newPhrases)

\* manageStoredPhrases, +server.ts lines 57-66: the new value of
\* previouslyGeneratedPhrases.
manageStoredPhrases(stored, newPhrases) ==
    LET added == stored \cup SeqToSet(newPhrases)
    IN  IF Cardinality(added) > 100 THEN SeqToSet(newPhrases) ELSE added

\* fallbackPhrases of +server.ts, lines 74-80; errorMessage is "" when
\* the argument is omitted.
serverFallbackPhrases(errorMessage) ==
    <<[text |-> IF errorMessage # "" THEN errorMessage
                ELSE "I always forget about my elbows", points |-> 1],
      [text |-> "You ever think pigeons are spies?", points |-> 2],
      [text |-> "They banned me from the aquarium for tickling the stingrays",
       points |-> 3]>>

\* json(body, init)
json(body, status, headers) ==
    [status |-> status, headers |-> headers, body |-> body]

NoRequest ==
    [apiKey |-> FALSE,
     upstream |-> UpstreamAnswer("rejects", 0, NoHeaders, FALSE, "none",
                                 NoArray)]
NoResponse == json(<<>>, 0, NoHeaders)

\* The answer of the inner catch, lines 252-259.
Caught(stored) ==
    [stored |-> stored,
     response |-> json(serverFallbackPhrases(""), 503, NoStore)]

\* The 429 branch, lines 207-218: the Retry-After of the upstream answer,
\* or 60 when headers.get gives null or the empty string.
RateLimited(stored, up) ==
    [stored |-> stored,
     response |->
        json(serverFallbackPhrases(
                 "Rate limit exceeded. Please wait a moment before trying again."),
             429,
             NoStore @@ [h \in {"Retry-After"} |->
                            IF get(up.headers, "Retry-After") \in {Undefined, ""}
                            THEN "60"
                            ELSE get(up.headers, "Retry-After")])]

\* phrases.map((p) => p.text), line 244
Texts(elements) == [i \in 1..Len(elements) |-> elements[i].text]

\* The success path, lines 243-251: the texts are remembered and each
\* element is answered with its text and the points of its position.
Succeed(stored, up) ==
    [stored |-> manageStoredPhrases(stored, Texts(up.elements)),
     response |->
        json([i \in 1..Len(up.elements) |->
                 [text |-> up.elements[i].text, points |-> i]],
             200, NoHeaders)]

\* POST, +server.ts lines 82-270: the response and the new value of
\* previouslyGeneratedPhrases.  Every throw of the inner try block (fetch
\* rejecting, the failure body not readable, a status other than 429, a
\* body that is no JSON or has no candidates, no bracketed part, a
\* bracketed part that does not parse, a length other than 3, the text of
\* a null element) ends in the inner catch.
POST(stored, apiKey, up) ==
    IF ~apiKey
    THEN [stored |-> stored,
          response |->
             json(serverFallbackPhrases(
                      "Error: API key missing. Contact the admin."),
                  500, NoStore)]
    ELSE IF up.fetch = "rejects" THEN Caught(stored)
    ELSE IF ~ok(up.status)
    THEN IF ~up.readable THEN Caught(stored)
         ELSE IF up.status = 429 THEN RateLimited(stored, up)
         ELSE Caught(stored)
    ELSE IF up.body # "array" THEN Caught(stored)
    ELSE IF Len(up.elements) # 3 THEN Caught(stored)
    ELSE IF \E i \in 1..Len(up.elements) : ~up.elements[i].isObject
    THEN Caught(stored)
    ELSE Succeed(stored, up)

\* ------------------------------------------------------------ the state
VARIABLES defaultSettings, initialSettings, storeRef, sharedGames, gameObjs,
          shape, slot, storageFull, raised, subscription, delivered, phrases,
          totalScore, nextGameId, nextBatchId, now, lastOp, inFlight, timer,
          isLoading, sorted, previouslyGeneratedPhrases, request, response,
          nextText, isConfirmingReset

storeVars == <<defaultSettings, initialSettings, storeRef, sharedGames,
               gameObjs, shape, slot, storageFull, raised, subscription,
               delivered, phrases, totalScore>>
idVars == <<nextGameId, nextBatchId, now>>
pageVars == <<inFlight, timer, isLoading, sorted>>
serverVars == <<previouslyGeneratedPhrases, request, response, nextText>>

dialogVars == <<isConfirmingReset>>

vars == <<storeVars, idVars, lastOp, pageVars, serverVars, dialogVars>>

\* The store state the operations work on.
Store ==
    [defaultSettings |-> defaultSettings, initialSettings |-> initialSettings,
     storeRef |-> storeRef, sharedGames |-> sharedGames, gameObjs |-> gameObjs,
     shape |-> shape, slot |-> slot, storageFull |-> storageFull,
     raised |-> raised, subscription |-> subscription,
     delivered |-> delivered,
     phrases |-> phrases, totalScore |-> totalScore]

\* The store state a call starts from: raised and delivered tell what the
\* call itself raised and delivered.
Call == [Store EXCEPT !.raised = FALSE, !.delivered = <<>>]

SetStore(st) ==
    /\ defaultSettings' = st.defaultSettings
    /\ initialSettings' = st.initialSettings
    /\ storeRef' = st.storeRef
    /\ sharedGames' = st.sharedGames
    /\ gameObjs' = st.gameObjs
    /\ shape' = st.shape
    /\ slot' = st.slot
    /\ storageFull' = st.storageFull
    /\ raised' = st.raised
    /\ subscription' = st.subscription
    /\ delivered' = st.delivered
    /\ phrases' = st.phrases
    /\ totalScore' = st.totalScore

\* The aggregate a reader of the store sees: games with their content, in
\* order, and the current game id.
AggregateOf(st) == stringify(st, Value(st)).doc
Aggregate == AggregateOf(Store)

Games == Aggregate.games
CurrentGameId == Aggregate.currentGameId

\* The game with the given id in an aggregate that holds one.
GameOf(agg, gameId) ==
    agg.games[CHOOSE i \in 1..Len(agg.games) : agg.games[i].id = gameId]

\* The call made last, with what held of its target when it was made:
\* found (a game has that id), wasCurrent (it was the current game),
\* hadCollapsed (the game carried an isCollapsed field) and hadBatch (the
\* game held a batch with the id of the batch named).
Op(st, op, gameId, name, batch) ==
    [op |-> op, gameId |-> gameId, name |-> name, batch |-> batch,
     found |-> HasGame(st, gameId),
     wasCurrent |-> (Value(st).currentGameId = gameId),
     hadCollapsed |-> (HasGame(st, gameId)
                        /\ "isCollapsed" \in DOMAIN st.gameObjs[gameId]),
     hadBatch |-> (HasGame(st, gameId)
                    /\ \E k \in 1..Len(st.gameObjs[gameId].batches) :
                          st.gameObjs[gameId].batches[k].id = batch.id)]

Record(op, gameId, name, batch) ==
    lastOp' = Op(Store, op, gameId, name, batch)

Loaded ==
    [op |-> "load", gameId |-> Null, name |-> "", batch |-> NoBatch,
     found |-> FALSE, wasCurrent |-> FALSE, hadCollapsed |-> FALSE,
     hadBatch |-> FALSE]

\* The state once the module has been evaluated and the store is st; the
\* page is not mounted yet.
\* gameId and batchId are the next fresh ids.
InitStoreAt(st, gameId, batchId) ==
    /\ defaultSettings = st.defaultSettings
    /\ initialSettings = st.initialSettings
    /\ storeRef = st.storeRef
    /\ sharedGames = st.sharedGames
    /\ gameObjs = st.gameObjs
    /\ shape = st.shape
    /\ slot = st.slot
    /\ storageFull = st.storageFull
    /\ raised = st.raised
    /\ subscription = st.subscription
    /\ delivered = st.delivered
    /\ phrases = st.phrases
    /\ totalScore = st.totalScore
    /\ nextGameId = gameId
    /\ nextBatchId = batchId
    /\ now = 0
    /\ lastOp = Loaded
    /\ inFlight = <<>>
    /\ timer = "none"
    /\ isLoading = FALSE
    /\ sorted = <<>>
    /\ previouslyGeneratedPhrases = {}
    /\ request = NoRequest
    /\ response = NoResponse
    /\ nextText = 1
    /\ isConfirmingReset = FALSE

InitStore(st) == InitStoreAt(st, 1, 1)

InitFrom(slots) == \E s \in slots : InitStore(createSettingsStore(s))

Init == InitFrom(InitSlots)

\* ---------------------------------------------------------------- actions
CreateGame ==
    /\ nextGameId <= MaxGameIds
    /\ \E name \in CreateNames :
        /\ SetStore(createGame(Call, name, nextGameId, now))
        /\ Record("createGame", nextGameId, name, NoBatch)
    /\ nextGameId' = nextGameId + 1
    /\ UNCHANGED <<nextBatchId, now, pageVars, serverVars, dialogVars>>

AddBatchToGame ==
    /\ nextBatchId <= MaxBatchIds
    /\ \E gameId \in GameIds :
        LET batch == [id |-> nextBatchId, timestamp |-> now,
                      phrases |-> SomePhrases]
        IN  /\ SetStore(addBatchToGame(Call, gameId, batch))
            /\ Record("addBatchToGame", gameId, "", batch)
    /\ nextBatchId' = nextBatchId + 1
    /\ UNCHANGED <<nextGameId, now, pageVars, serverVars, dialogVars>>

RemoveBatch ==
    /\ \E gameId \in GameIds, batchId \in BatchIds :
        /\ SetStore(removeBatch(Call, gameId, batchId))
        /\ Record("removeBatch", gameId, "",
                  [NoBatch EXCEPT !.id = batchId])
    /\ UNCHANGED <<nextGameId, nextBatchId, now, pageVars, serverVars, dialogVars>>

RemoveGame ==
    /\ \E gameId \in GameIds :
        /\ SetStore(removeGame(Call, gameId))
        /\ Record("removeGame", gameId, "", NoBatch)
    /\ UNCHANGED <<nextGameId, nextBatchId, now, pageVars, serverVars, dialogVars>>

SetCurrentGame ==
    /\ \E gameId \in GameIds :
        /\ SetStore(setCurrentGame(Call, gameId))
        /\ Record("setCurrentGame", gameId, "", NoBatch)
    /\ UNCHANGED <<nextGameId, nextBatchId, now, pageVars, serverVars, dialogVars>>

ToggleGameCollapsed ==
    /\ \E gameId \in GameIds :
        /\ SetStore(toggleGameCollapsed(Call, gameId))
        /\ Record("toggleGameCollapsed", gameId, "", NoBatch)
    /\ UNCHANGED <<nextGameId, nextBatchId, now, pageVars, serverVars, dialogVars>>

RenameGame ==
    /\ \E gameId \in GameIds, newName \in RenameNames :
        /\ SetStore(renameGame(Call, gameId, newName))
        /\ Record("renameGame", gameId, newName, NoBatch)
    /\ UNCHANGED <<nextGameId, nextBatchId, now, pageVars, serverVars, dialogVars>>

Reset ==
    /\ SetStore(reset(Call))
    /\ Record("reset", Null, "", NoBatch)
    /\ UNCHANGED <<nextGameId, nextBatchId, now, pageVars, serverVars, dialogVars>>

\* The page is loaded again: the module is evaluated anew and the store is
\* created from what the slot holds.
Reload ==
    /\ SetStore([createSettingsStore(slot) EXCEPT !.storageFull = storageFull])
    /\ lastOp' = Loaded
    /\ UNCHANGED <<nextGameId, nextBatchId, now, pageVars, serverVars, dialogVars>>

\* The wall clock advances.
Tick ==
    /\ now < MaxClock
    /\ now' = now + 1
    /\ lastOp' = [lastOp EXCEPT !.op = "tick"]
    /\ UNCHANGED <<storeVars, nextGameId, nextBatchId, pageVars, serverVars, dialogVars>>

\* localStorage, which was full, has room again.
StorageFrees ==
    /\ storageFull
    /\ storageFull' = FALSE
    /\ lastOp' = [Loaded EXCEPT !.op = "storage"]
    /\ UNCHANGED <<defaultSettings, initialSettings, storeRef, sharedGames,
                   gameObjs, shape, slot, raised, subscription, delivered,
                   phrases, totalScore, idVars, pageVars, serverVars, dialogVars>>

\* settings.subscribe(callback), line 211 and part_000 line 345: the
\* callback is run with the current value before subscribe returns.
Subscribe ==
    /\ subscription # "active"
    /\ SetStore(callback([Call EXCEPT !.subscription = "active"]))
    /\ lastOp' = [Loaded EXCEPT !.op = "subscribe"]
    /\ UNCHANGED <<idVars, pageVars, serverVars, dialogVars>>

\* The function subscribe returned is called, for the first time or again.
Unsubscribe ==
    /\ subscription # "none"
    /\ SetStore([Call EXCEPT !.subscription = "ended"])
    /\ lastOp' = [Loaded EXCEPT !.op = "unsubscribe",
                                !.found = (subscription = "active")]
    /\ UNCHANGED <<idVars, pageVars, serverVars, dialogVars>>

Next ==
    \/ CreateGame
    \/ AddBatchToGame
    \/ RemoveBatch
    \/ RemoveGame
    \/ SetCurrentGame
    \/ ToggleGameCollapsed
    \/ RenameGame
    \/ Reset
    \/ Reload

Spec == Init /\ [][Next]_vars

\* The same store with the wall clock advancing between the calls.
NextClock ==
    \/ Next
    \/ Tick

SpecClock == Init /\ [][NextClock]_vars

\* The eight operations of the store.
StoreOps ==
    \/ CreateGame
    \/ AddBatchToGame
    \/ RemoveBatch
    \/ RemoveGame
    \/ SetCurrentGame
    \/ ToggleGameCollapsed
    \/ RenameGame
    \/ Reset

StoreOpNames ==
    {"createGame", "addBatchToGame", "removeBatch", "removeGame",
     "setCurrentGame", "toggleGameCollapsed", "renameGame", "reset"}

\* The operation a call record names, applied to a store state.
Applied(st, call, time) ==
    CASE call.op = "createGame" -> createGame(st, call.name, call.gameId, time)
      [] call.op = "addBatchToGame" -> addBatchToGame(st, call.gameId, call.batch)
      [] call.op = "removeBatch" -> removeBatch(st, call.gameId, call.batch.id)
      [] call.op = "removeGame" -> removeGame(st, call.gameId)
      [] call.op = "setCurrentGame" -> setCurrentGame(st, call.gameId)
      [] call.op = "toggleGameCollapsed" -> toggleGameCollapsed(st, call.gameId)
      [] call.op = "renameGame" -> renameGame(st, call.gameId, call.name)
      [] call.op = "reset" -> reset(st)

\* A fresh store with the page's subscriber registered, in a browser whose
\* storage is full or not.
InitQuota ==
    \E full \in BOOLEAN :
        InitStore(callback([createSettingsStore(AbsentSlot) EXCEPT
                               !.storageFull = full,
                               !.subscription = "active"]))

NextQuota ==
    \/ StoreOps
    \/ StorageFrees

SpecQuota == InitQuota /\ [][NextQuota]_vars

\* A store whose one subscriber comes and goes.
NextSubscribe ==
    \/ StoreOps
    \/ Subscribe
    \/ Unsubscribe

InitSubscribe == InitFrom({AbsentSlot})

SpecSubscribe == InitSubscribe /\ [][NextSubscribe]_vars

\* ------------------------------------------------------------ properties
EmptySlot == [kind |-> "json", doc |-> EmptyDoc]

C2_ResetRestoresDefault ==
    lastOp.op = "reset" => Aggregate = EmptyDoc /\ slot = EmptySlot

C4_CreateGame ==
    [][lastOp'.op = "createGame" =>
        LET n == Len(Games)
        IN  /\ Len(Games') = n + 1
            /\ SubSeq(Games', 1, n) = Games
            /\ \A i \in 1..n : Games[i].id # Games'[n + 1].id
            /\ Games'[n + 1].batches = <<>>
            /\ "isCollapsed" \in DOMAIN Games'[n + 1]
            /\ Games'[n + 1].isCollapsed = FALSE
            /\ CurrentGameId' = Games'[n + 1].id]_vars

\* A game was created in a store that already held one.
C4_Witness ==
    /\ lastOp.op = "createGame"
    /\ Len(Games) >= 2
    /\ CurrentGameId = Games[Len(Games)].id

\* C5 as stated: createGame with a blank name gives the new game the
\* generic default name.
C5_BlankNameGetsDefault ==
    (lastOp.op = "createGame" /\ lastOp.name = "") =>
        Games[Len(Games)].name = DefaultName

\* C5 as amended: the new game carries the name as passed, a blank one
\* included; only a call without a name gets the default name.
C5_NameAsPassed ==
    lastOp.op = "createGame" =>
        Games[Len(Games)].name =
            (IF lastOp.name = NoName THEN DefaultName ELSE lastOp.name)

\* A game was created with the blank name and carries it.
C5_Witness ==
    /\ lastOp.op = "createGame"
    /\ lastOp.name = ""
    /\ Games[Len(Games)].name = ""

\* C6: addBatchToGame(g, b) on an existing game puts b first, followed by
\* the batches g held, and changes no other game's batches.
C6_AddBatchPrepends ==
    [][(lastOp'.op = "addBatchToGame" /\ lastOp'.found) =>
        LET g == lastOp'.gameId
        IN  /\ Len(Games') = Len(Games)
            /\ GameOf(Aggregate', g).batches =
                   <<lastOp'.batch>> \o GameOf(Aggregate, g).batches
            /\ \A i \in 1..Len(Games) :
                   Games[i].id # g => Games'[i] = Games[i]]_vars

\* A batch was added to a game that already held one, beside another game.
C6_Witness ==
    /\ lastOp.op = "addBatchToGame"
    /\ lastOp.found
    /\ Len(GameOf(Aggregate, lastOp.gameId).batches) >= 2
    /\ GameOf(Aggregate, lastOp.gameId).batches[1] = lastOp.batch
    /\ Len(Games) >= 2

\* C7: addBatchToGame(g, b) with a g that matches no game changes nothing
\* and raises nothing.
C7_AddBatchUnknownGame ==
    [][(lastOp'.op = "addBatchToGame" /\ ~lastOp'.found) =>
        (Aggregate' = Aggregate /\ ~raised')]_vars

\* A batch was offered for an id no game has while the store held games.
C7_Witness ==
    /\ lastOp.op = "addBatchToGame"
    /\ ~lastOp.found
    /\ Len(Games) >= 1
    /\ \A i \in 1..Len(Games) : Games[i].batches = <<>>

\* C8: setCurrentGame(x) makes x current and changes nothing else when x is
\* a game's id, and changes nothing when it is not.
C8_SetCurrentGame ==
    [][lastOp'.op = "setCurrentGame" =>
        IF lastOp'.found
        THEN CurrentGameId' = lastOp'.gameId /\ Games' = Games
        ELSE Aggregate' = Aggregate]_vars

\* The current game was switched to another existing game.
C8_Witness ==
    /\ lastOp.op = "setCurrentGame"
    /\ lastOp.found /\ ~lastOp.wasCurrent
    /\ CurrentGameId = lastOp.gameId

\* The aggregate after one more toggleGameCollapsed of the game, in the
\* store state the first call left.
ToggledAgain(after, gameId) == AggregateOf(toggleGameCollapsed(after, gameId))

\* C9 as stated: toggleGameCollapsed(g) twice gives back the aggregate as it
\* was, for every game, also one that carries no isCollapsed field.
C9_ToggleTwiceRestores ==
    [][(lastOp'.op = "toggleGameCollapsed" /\ lastOp'.found) =>
        \A after \in {Store'} :
            ToggledAgain(after, lastOp'.gameId) = Aggregate]_vars

\* The aggregate with isCollapsed: false on game g when it has no such field.
WithCollapsedField(agg, g) ==
    [agg EXCEPT !.games =
        [i \in 1..Len(agg.games) |->
            IF agg.games[i].id = g /\ "isCollapsed" \notin DOMAIN agg.games[i]
            THEN ("isCollapsed" :> FALSE) @@ agg.games[i]
            ELSE agg.games[i]]]

\* C9 as amended: toggleGameCollapsed(g) twice gives back the aggregate as
\* it was when g carries an isCollapsed field; when g carries none, the two
\* calls leave it with isCollapsed = false and change nothing else.
C9_ToggleTwice ==
    [][(lastOp'.op = "toggleGameCollapsed" /\ lastOp'.found) =>
        \A after \in {Store'} :
            ToggledAgain(after, lastOp'.gameId)
                = WithCollapsedField(Aggregate, lastOp'.gameId)]_vars

\* A game that carried no isCollapsed field was toggled.
C9_Witness ==
    /\ lastOp.op = "toggleGameCollapsed"
    /\ lastOp.found /\ ~lastOp.hadCollapsed
    /\ GameOf(Aggregate, lastOp.gameId).isCollapsed = TRUE

\* C10: a store created from an absent or unparsable slot holds the empty
\* default and raised nothing.
C10_LoadFallsBack ==
    (lastOp.op = "load" /\ slot.kind \in {"absent", "corrupt"}) =>
        (Aggregate = EmptyDoc /\ ~raised)

\* The store was created from text that does not parse.
C10_Witness ==
    /\ lastOp.op = "load"
    /\ slot = CorruptSlot
    /\ Aggregate = EmptyDoc


\* ------------------------------------------------- structurally invalid text
\* The store created from text that parses but is no Settings value.
InitInvalid == InitFrom(InvalidSlots)

SpecInvalid == InitInvalid /\ [][Next]_vars

\* C11: when the slot holds parsable text without a games array (an
\* older-schema object, or null), the store starts with the empty default
\* {games: [], currentGameId: null}, and no later store operation raises.
C11_InvalidTextFallsBack ==
    /\ lastOp.op = "load" => shape = "ok" /\ Aggregate = EmptyDoc
    /\ ~raised


\* ------------------------------------------------------------ full storage
\* C12: when the write to the slot fails during a store operation, the
\* operation does not raise, the aggregate takes the value the operation
\* gives it when the write succeeds, the subscriber is notified with it, and
\* the slot keeps its content.
C12_WriteFailureSwallowed ==
    [][lastOp'.op \in StoreOpNames /\ storageFull =>
        /\ ~raised'
        /\ Aggregate' =
              AggregateOf(Applied([Call EXCEPT !.storageFull = FALSE],
                                  lastOp', now))
        /\ delivered' = <<Aggregate'>>
        /\ slot' = slot]_vars

\* A game was created while the storage was full: the subscriber received
\* the aggregate with the game, the slot is still absent.
C12_Witness ==
    /\ lastOp.op = "createGame"
    /\ storageFull
    /\ Len(Games) = 1
    /\ delivered = <<Aggregate>>
    /\ slot = AbsentSlot

\* C13: after every store operation that changes the aggregate and whose
\* write succeeds, the slot holds the serialization of exactly the
\* aggregate in memory.
C13_SlotFollowsAggregate ==
    [][lastOp'.op \in StoreOpNames /\ Aggregate' # Aggregate /\ ~storageFull =>
        slot' = [kind |-> "json", doc |-> Aggregate']]_vars

\* A game was renamed with room in the storage: the slot holds the
\* aggregate with the new name.
C13_Witness ==
    /\ lastOp.op = "renameGame"
    /\ lastOp.found
    /\ ~storageFull
    /\ Len(Games) = 1
    /\ Games[1].name = DefaultName
    /\ slot = [kind |-> "json", doc |-> Aggregate]


\* ------------------------------------------------------------ subscription
\* C14: a subscriber receives the current aggregate on subscribing, and
\* then every operation delivers exactly one notification, the aggregate it
\* left, before it returns (so notifications come in the order of the
\* calls, none merged); once unsubscribed it receives nothing, and calling
\* unsubscribe again raises nothing.
C14_SubscriberNotified ==
    /\ lastOp.op = "subscribe" => delivered = <<Aggregate>>
    /\ lastOp.op \in StoreOpNames =>
          delivered = IF subscription = "active" THEN <<Aggregate>> ELSE <<>>
    /\ lastOp.op = "unsubscribe" =>
          ~raised /\ delivered = <<>> /\ subscription = "ended"

\* While subscribed, createGame delivered the aggregate holding the new
\* game.
C14_Witness ==
    /\ lastOp.op = "createGame"
    /\ subscription = "active"
    /\ Len(Games) = 1
    /\ delivered = <<Aggregate>>


SortStamps == 0..MaxClock

SortGame(id, created, batches) ==
    [id |-> id, name |-> "Game", timestamp |-> created, batches |-> batches,
     isCollapsed |-> FALSE]

SortBatches(id) ==
    {<<>>} \cup {<<[id |-> 10 + id, timestamp |-> t, phrases |-> SomePhrases]>> :
                    t \in SortStamps}

SortLists ==
    UNION {{games \in [1..n -> UNION {{SortGame(id, t, bs) :
                                          t \in SortStamps, bs \in SortBatches(id)} :
                                       id \in 1..n}] :
                \A i \in 1..n : games[i].id = i} : n \in 0..MaxSortGames}

SortSlots ==
    {[kind |-> "json",
      doc |-> [games |-> games,
               currentGameId |-> IF games = <<>> THEN Null ELSE 1]] :
        games \in SortLists}

\* The page is mounted on a store loaded from one of the lists.
InitSort ==
    \E s \in SortSlots :
        InitStore(callback([createSettingsStore(s) EXCEPT
                               !.subscription = "active"]))

GetSortedGames ==
    /\ sorted' = getSortedGames(Store)
    /\ lastOp' = [Loaded EXCEPT !.op = "getSortedGames"]
    /\ UNCHANGED <<storeVars, idVars, inFlight, timer, isLoading, serverVars, dialogVars>>

NextSort == GetSortedGames

SpecSort == InitSort /\ [][NextSort]_vars

\* The last-activity time of a game as the claim defines it.
LastActivity(game) ==
    IF Len(game.batches) > 0 THEN game.batches[1].timestamp ELSE game.timestamp

\* The position of a game in the store's list.
StorePlace(id) == CHOOSE i \in 1..Len(Games) : Games[i].id = id

\* C19: getSortedGames returns all games of the store by descending
\* last-activity time (the time of batches[0] when the game has batches, its
\* creation time otherwise), games of equal time in their store order, and
\* leaves the store's list as it was.
C19_SortedByLastActivity ==
    lastOp.op = "getSortedGames" =>
        /\ Len(sorted) = Len(Games)
        /\ {sorted[i] : i \in 1..Len(sorted)} = {Games[i].id : i \in 1..Len(Games)}
        /\ \A i, j \in 1..Len(sorted) :
              i < j =>
                LET a == LastActivity(GameOf(Aggregate, sorted[i]))
                    b == LastActivity(GameOf(Aggregate, sorted[j]))
                IN  /\ a >= b
                    /\ a = b => StorePlace(sorted[i]) < StorePlace(sorted[j])
        /\ Aggregate = slot.doc

\* Three games were sorted: the newest batch put the last game first, and
\* the two others, of equal time, kept their order.
C19_Witness ==
    /\ lastOp.op = "getSortedGames"
    /\ Len(sorted) = 3
    /\ sorted = <<3, 1, 2>>
    /\ Games[3].batches # <<>>
    /\ Games[3].timestamp < Games[1].timestamp
    /\ LastActivity(Games[1]) = LastActivity(Games[2])


\* ----------------------------------------------------------------- the page
\* onMount, part_000 lines 343-382: the subscriber is registered and run,
\* and the startup check is set to run 100 ms later.
Mount ==
    /\ timer = "none"
    /\ LET st == callback([Call EXCEPT !.subscription = "active"])
       IN  /\ SetStore(st)
           /\ timer' = IF st.raised THEN "none" ELSE "pending"
    /\ lastOp' = [Loaded EXCEPT !.op = "mount"]
    /\ UNCHANGED <<idVars, inFlight, isLoading, sorted, serverVars, dialogVars>>

\* The synchronous start of initPhrases (lines 72-73 and 31-34) when starts
\* holds: the request is sent for the game that is current now.
Started(r) ==
    /\ r.starts => Len(inFlight) < MaxInFlight
    /\ inFlight' = IF r.starts
                   THEN Append(inFlight,
                               [startedFor |-> Value(r.store).currentGameId])
                   ELSE inFlight
    /\ isLoading' = (r.starts \/ isLoading)

\* The callback of setTimeout, lines 367-378.
StartupCheck ==
    /\ timer = "pending"
    /\ timer' = "done"
    /\ lastOp' = Op(Store, "startupCheck", Value(Store).currentGameId, "", NoBatch)
    /\ IF needsInitialGame(Call)
       THEN /\ nextGameId <= MaxGameIds
            /\ LET r == [store |-> createGame(Call, DatedName, nextGameId, now),
                         starts |-> TRUE]
               IN  SetStore(r.store) /\ Started(r)
            /\ nextGameId' = nextGameId + 1
       ELSE /\ SetStore(Call)
            /\ UNCHANGED <<nextGameId, inFlight, isLoading>>
    /\ UNCHANGED <<nextBatchId, now, sorted, serverVars, dialogVars>>

\* The names typed in the new-game dialog, trimmed.
DialogNames == {"", "Party"}

CreateNewGame ==
    /\ timer # "none"
    /\ nextGameId <= MaxGameIds
    /\ \E name \in DialogNames :
        LET r == createNewGame(Call, name, nextGameId, now)
        IN  /\ SetStore(r.store)
            /\ Started(r)
            /\ nextGameId' = IF r.starts THEN nextGameId + 1 ELSE nextGameId
            /\ lastOp' = Op(Store, "createNewGame", nextGameId, name, NoBatch)
    /\ UNCHANGED <<nextBatchId, now, timer, sorted, serverVars, dialogVars>>

\* A game of the list is chosen.
SelectGame ==
    /\ timer # "none"
    /\ \E gameId \in SeqToSet(Value(Store).games) :
        LET r == selectGame(Call, gameId)
        IN  /\ SetStore(r.store)
            /\ Started(r)
            /\ lastOp' = Op(Store, "selectGame", gameId, "", NoBatch)
    /\ UNCHANGED <<idVars, timer, sorted, serverVars, dialogVars>>

\* The removal of a game of the list is confirmed.
PageRemoveGame ==
    /\ timer # "none"
    /\ \E gameId \in SeqToSet(Value(Store).games) :
        LET r == pageRemoveGame(Call, gameId)
        IN  /\ SetStore(r.store)
            /\ Started(r)
            /\ lastOp' = Op(Store, "pageRemoveGame", gameId, "", NoBatch)
    /\ UNCHANGED <<idVars, timer, sorted, serverVars, dialogVars>>

\* The removal of a batch of the list is confirmed.
PageRemoveBatch ==
    /\ timer # "none"
    /\ \E gameId \in SeqToSet(Value(Store).games) :
        \E k \in 1..Len(gameObjs[gameId].batches) :
            LET batch == gameObjs[gameId].batches[k]
                r == pageRemoveBatch(Call, gameId, batch.id)
            IN  /\ SetStore(r.store)
                /\ Started(r)
                /\ lastOp' = Op(Store, "pageRemoveBatch", gameId, "",
                                [NoBatch EXCEPT !.id = batch.id])
    /\ UNCHANGED <<idVars, timer, sorted, serverVars, dialogVars>>

\* A request settles and its cycle runs to its end: the rest of
\* generateAIPhrases (lines 41-58) and of initPhrases (lines 74-97).  The
\* record of the call keeps the game that was current, the outcome and the
\* game that was current when the request was sent.
Settle ==
    /\ nextBatchId <= MaxBatchIds
    /\ needsInitialGame(Store) => nextGameId <= MaxGameIds
    /\ \E i \in 1..Len(inFlight), outcome \in Outcomes :
        LET generated == generateAIPhrases(outcome)
            st == finishInitPhrases(Call, inFlight[i], generated,
                                    nextGameId, nextBatchId, now)
            newBatch == [id |-> nextBatchId, timestamp |-> now,
                         phrases |-> withUsed(generated.phrases)]
        IN  /\ SetStore(st)
            /\ inFlight' = SubSeq(inFlight, 1, i - 1)
                              \o SubSeq(inFlight, i + 1, Len(inFlight))
            /\ lastOp' = [startedFor |-> inFlight[i].startedFor]
                            @@ Op(Store, "settle", Value(Store).currentGameId,
                                  outcome, newBatch)
            /\ nextBatchId' = IF generated.isArray
                              THEN nextBatchId + 1 ELSE nextBatchId
            /\ nextGameId' = IF generated.isArray /\ needsInitialGame(Store)
                             THEN nextGameId + 1 ELSE nextGameId
    /\ isLoading' = FALSE
    /\ UNCHANGED <<now, timer, sorted, serverVars, dialogVars>>

NextPage ==
    \/ Mount
    \/ StartupCheck
    \/ CreateNewGame
    \/ SelectGame
    \/ PageRemoveGame
    \/ PageRemoveBatch
    \/ Settle

InitPage == InitFrom(PageSlots)

SpecPage == InitPage /\ [][NextPage]_vars


\* The games of the aggregate that hold a batch with the given id.
Holders(batchId) ==
    {i \in 1..Len(Games) :
        \E k \in 1..Len(Games[i].batches) : Games[i].batches[k].id = batchId}

CurrentExists == \E i \in 1..Len(Games) : Games[i].id = CurrentGameId

\* C16: the batch a generation cycle produces is attached to the game that
\* is current when the batch is created (the game that was current when
\* the request settled, or the game created then when none was), whatever
\* game was current when the request was sent; it is in no other game, and
\* it is not lost.
C16_BatchGoesToCurrentGame ==
    lastOp.op = "settle" /\ lastOp.name # "notArray" =>
        /\ CurrentExists
        /\ lastOp.found => CurrentGameId = lastOp.gameId
        /\ GameOf(Aggregate, CurrentGameId).batches # <<>>
        /\ GameOf(Aggregate, CurrentGameId).batches[1] = lastOp.batch
        /\ \A i \in Holders(lastOp.batch.id) : Games[i].id = CurrentGameId

\* A request sent for one game settled when another game was current, and
\* its batch is the newest of that other game.
C16_Witness ==
    /\ lastOp.op = "settle"
    /\ lastOp.name = "ok"
    /\ lastOp.found
    /\ lastOp.startedFor # CurrentGameId
    /\ GameOf(Aggregate, CurrentGameId).batches[1] = lastOp.batch

\* C17: every generation cycle whose request settles ends by prepending
\* exactly one batch of exactly 3 phrases, all with used = false, to the
\* current game: the server's phrases on a success response, the fallback
\* phrases on a non-success status, a network error or a malformed body;
\* nothing is raised.
C17_CycleEndsWithBatch ==
    lastOp.op = "settle" =>
        /\ ~raised
        /\ CurrentExists
        /\ GameOf(Aggregate, CurrentGameId).batches # <<>>
        /\ LET newest == GameOf(Aggregate, CurrentGameId).batches[1]
           IN  /\ newest.id = lastOp.batch.id
               /\ Cardinality(Holders(newest.id)) = 1
               /\ Len(newest.phrases) = 3
               /\ \A k \in 1..3 : ~newest.phrases[k].used
               /\ newest.phrases =
                     withUsed(IF lastOp.name = "ok"
                              THEN ServerPhrases ELSE fallbackPhrases)

\* C18: the startup check leaves a current game that exists: it creates a
\* game, makes it current and starts a generation cycle for it when the
\* aggregate has no games, no current game or a current game id that
\* matches no game, and creates nothing when the current game is valid.
C18_StartupCheck ==
    [][lastOp'.op = "startupCheck" =>
        LET old == Aggregate
            new == Aggregate'
            valid == /\ Len(old.games) > 0
                     /\ old.currentGameId # Null
                     /\ \E i \in 1..Len(old.games) :
                           old.games[i].id = old.currentGameId
        IN  /\ \E i \in 1..Len(new.games) : new.games[i].id = new.currentGameId
            /\ IF valid
               THEN new = old /\ inFlight' = inFlight
               ELSE /\ Len(new.games) = Len(old.games) + 1
                    /\ SubSeq(new.games, 1, Len(old.games)) = old.games
                    /\ new.games[Len(new.games)].id = new.currentGameId
                    /\ new.games[Len(new.games)].batches = <<>>
                    /\ inFlight' = Append(inFlight,
                                          [startedFor |-> new.currentGameId])]_vars

\* The loaded current game id matched no game: the check added a game after
\* the loaded one, made it current and sent a request for it.
C18_Witness ==
    /\ lastOp.op = "startupCheck"
    /\ lastOp.gameId = DanglingId
    /\ Len(Games) = 2
    /\ CurrentGameId = Games[2].id
    /\ inFlight = <<[startedFor |-> CurrentGameId]>>


\* ------------------------------------------------------------- no removal
\* The operations that are no removal.
KeepingOpNames ==
    {"createGame", "addBatchToGame", "setCurrentGame", "toggleGameCollapsed",
     "renameGame"}

\* C21: createGame, addBatchToGame, setCurrentGame, toggleGameCollapsed and
\* renameGame never decrease the number of games nor the number of batches
\* of any game: every game is still there afterwards, with at least as many
\* batches.
C21_OnlyRemovalsRemove ==
    [][lastOp'.op \in KeepingOpNames =>
        \A old \in {Aggregate}, new \in {Aggregate'} :
            /\ Len(new.games) >= Len(old.games)
            /\ \A i \in 1..Len(old.games) :
                  \E j \in 1..Len(new.games) :
                      /\ new.games[j].id = old.games[i].id
                      /\ Len(new.games[j].batches) >= Len(old.games[i].batches)]_vars

\* A game holding a batch was renamed and still holds it.
C21_Witness ==
    /\ lastOp.op = "renameGame"
    /\ lastOp.found
    /\ GameOf(Aggregate, lastOp.gameId).name = DefaultName
    /\ GameOf(Aggregate, lastOp.gameId).batches # <<>>

\* ------------------------------------------------ the endpoint at work
\* One request to POST /api/generate: the environment has the API key or
\* not, and the upstream service answers in one of its ways.
Post ==
    \E apiKey \in BOOLEAN, up \in Upstreams(nextText) :
        LET r == POST(previouslyGeneratedPhrases, apiKey, up)
        IN  /\ previouslyGeneratedPhrases' = r.stored
            /\ response' = r.response
            /\ request' = [apiKey |-> apiKey, upstream |-> up]
            /\ nextText' = IF apiKey THEN nextText + up.fresh ELSE nextText
            /\ lastOp' = [Loaded EXCEPT !.op = "POST"]
            /\ UNCHANGED <<storeVars, idVars, pageVars, dialogVars>>

NextServer == Post

InitServer == InitFrom({AbsentSlot})

SpecServer == InitServer /\ [][NextServer]_vars

\* A phrase object at position i of a body: a text and the points i.
IsPhraseAt(body, i) == body[i].text # Undefined /\ body[i].points = i

\* C22: every response of POST /api/generate, on every path, carries a body
\* that is a sequence of exactly 3 phrase objects (a text and points) whose
\* points are 1, 2, 3 by position, and a success status is returned only
\* when the upstream answer contained exactly 3 phrases.
C22_ThreePhrases ==
    response.status # 0 =>
        /\ Len(response.body) = 3
        /\ \A i \in 1..3 : IsPhraseAt(response.body, i)
        /\ ok(response.status) =>
              /\ request.upstream.body = "array"
              /\ Len(request.upstream.elements) = 3
              /\ \A i \in 1..3 :
                    /\ request.upstream.elements[i].isObject
                    /\ request.upstream.elements[i].text # Undefined

\* C23: an upstream answer of 429 is answered with 429 and a Retry-After
\* header equal to the upstream's value, or 60 when the upstream gave none;
\* every other upstream failure is answered with 503 and a missing API key
\* with 500, none of them with a Retry-After header.
C23_ErrorStatuses ==
    response.status # 0 =>
        LET up == request.upstream
            upstreamFailed ==
                \/ up.fetch = "rejects"
                \/ ~ok(up.status)
                \/ up.body # "array"
                \/ Len(up.elements) # 3
        IN  /\ ~request.apiKey =>
                  /\ response.status = 500
                  /\ "Retry-After" \notin DOMAIN response.headers
            /\ request.apiKey /\ up.fetch = "resolves" /\ up.status = 429 =>
                  /\ response.status = 429
                  /\ "Retry-After" \in DOMAIN response.headers
                  /\ response.headers["Retry-After"] =
                        IF "Retry-After" \in DOMAIN up.headers
                        THEN up.headers["Retry-After"] ELSE "60"
            /\ request.apiKey /\ upstreamFailed
               /\ ~(up.fetch = "resolves" /\ up.status = 429) =>
                  /\ response.status = 503
                  /\ "Retry-After" \notin DOMAIN response.headers

\* C30: after every call of manageStoredPhrases(newPhrases) the set holds
\* every phrase of newPhrases and at most 100 entries, and when adding made
\* it exceed 100 it is exactly the latest batch.
C30_StoredPhrasesBounded ==
    [][lastOp'.op = "POST" /\ ok(response'.status) =>
        \A new \in {SeqToSet(Texts(request'.upstream.elements))} :
            /\ new \subseteq previouslyGeneratedPhrases'
            /\ Cardinality(previouslyGeneratedPhrases') <= 100
            /\ Cardinality(previouslyGeneratedPhrases \cup new) > 100 =>
                  previouslyGeneratedPhrases' = new]_vars

\* A successful request after more than 100 texts have been remembered,
\* which left exactly its own texts in the set.
C30_Witness ==
    /\ lastOp.op = "POST" /\ ok(response.status)
    /\ nextText > 101
    /\ request.upstream.fresh > 0
    /\ previouslyGeneratedPhrases = SeqToSet(Texts(request.upstream.elements))

OtherGame ==
    [id |-> DanglingId, name |-> "Other", timestamp |-> 0, batches |-> <<>>,
     isCollapsed |-> FALSE]
TwoGamesSlot ==
    [kind |-> "json",
     doc |-> [games |-> <<LegacyGame, OtherGame>>,
              currentGameId |-> PersistedId]]

NextTimeline ==
    \/ Mount
    \/ StartupCheck
    \/ SelectGame
    \/ PageRemoveGame
    \/ PageRemoveBatch
    \/ Settle
    \/ Tick

InitTimeline == InitFrom({AbsentSlot, LegacySlot, TwoGamesSlot})

SpecTimeline == InitTimeline /\ [][NextTimeline]_vars

ResetGame ==
    /\ timer # "none"
    /\ ~isLoading
    /\ SetStore(Call)
    /\ Started([store |-> Call, starts |-> TRUE])
    /\ lastOp' = [Loaded EXCEPT !.op = "resetGame"]
    /\ UNCHANGED <<idVars, timer, sorted, serverVars, dialogVars>>

\* A displayed phrase is clicked.  The phrases are rendered only while
\* isLoading does not hold (lines 418-481).
TogglePhraseUsed ==
    /\ timer # "none"
    /\ ~isLoading
    /\ \E index \in 1..Len(phrases) :
        /\ index <= MaxToggleIndex
        /\ SetStore(togglePhraseUsed(Call, index))
    /\ lastOp' = [Loaded EXCEPT !.op = "togglePhraseUsed"]
    /\ UNCHANGED <<idVars, pageVars, serverVars, dialogVars>>

\* The reset button of the settings dialog: the first click asks for a
\* confirmation, the second one resets the score.
ResetScore ==
    /\ timer # "none"
    /\ IF isConfirmingReset
       THEN /\ SetStore(resetScore(Call))
            /\ lastOp' = [Loaded EXCEPT !.op = "resetScore"]
       ELSE /\ SetStore(Call)
            /\ lastOp' = [Loaded EXCEPT !.op = "askReset"]
    /\ isConfirmingReset' = ~isConfirmingReset
    /\ UNCHANGED <<idVars, pageVars, serverVars>>

\* The timeout of lines 184-186 (or the dialog being closed, lines 191-196)
\* ends the wait for a confirmation.
ConfirmExpires ==
    /\ isConfirmingReset
    /\ isConfirmingReset' = FALSE
    /\ SetStore(Call)
    /\ lastOp' = [Loaded EXCEPT !.op = "confirmExpires"]
    /\ UNCHANGED <<idVars, pageVars, serverVars>>

\* toggleGameCollapsed of the page, part_000 lines 225-227.
PageToggleGameCollapsed ==
    /\ timer # "none"
    /\ \E gameId \in SeqToSet(Value(Store).games) :
        /\ SetStore(toggleGameCollapsed(Call, gameId))
        /\ lastOp' = [Loaded EXCEPT !.op = "pageToggleGameCollapsed"]
    /\ UNCHANGED <<idVars, pageVars, serverVars, dialogVars>>

\* saveGameName, part_000 lines 235-242; name is newGameName.trim().  The
\* field holds the game's name when the editing starts (line 232); it is
\* saved as it is or emptied.
SaveGameName ==
    /\ timer # "none"
    /\ \E gameId \in SeqToSet(Value(Store).games) :
        \E name \in {"", gameObjs[gameId].name} :
            SetStore(IF name # "" THEN renameGame(Call, gameId, name) ELSE Call)
        /\ lastOp' = [Loaded EXCEPT !.op = "saveGameName"]
    /\ UNCHANGED <<idVars, pageVars, serverVars, dialogVars>>

\* The page with its phrases and its score: generation cycles, game
\* switches, removals, clicks on the displayed phrases and score resets.
NextScore ==
    \/ Mount
    \/ StartupCheck
    \/ ResetGame
    \/ SelectGame
    \/ PageRemoveGame
    \/ PageRemoveBatch
    \/ Settle
    \/ TogglePhraseUsed
    \/ ResetScore
    \/ ConfirmExpires

\* The page of a later session: the slot is absent or holds two games, and
\* one more game and one more batch can be made.
InitScore ==
    \E s \in {AbsentSlot, TwoGamesSlot} :
        InitStoreAt(createSettingsStore(s), MaxGameIds, MaxBatchIds)

SpecScore == InitScore /\ [][NextScore]_vars

\* The page with the history list at work as well: games are collapsed and
\* renamed between the other actions.
NextShown ==
    \/ Mount
    \/ StartupCheck
    \/ SelectGame
    \/ PageRemoveGame
    \/ PageRemoveBatch
    \/ Settle
    \/ TogglePhraseUsed
    \/ ResetScore
    \/ PageToggleGameCollapsed
    \/ SaveGameName

InitShown ==
    InitStoreAt(createSettingsStore(TwoGamesSlot), MaxGameIds, MaxBatchIds)

SpecShown == InitShown /\ [][NextShown]_vars

\* The newest batch of the current game.
LatestBatch == gameObjs[Value(Store).currentGameId].batches[1]

\* C26: after every completed page action, whenever the current game has
\* at least one batch, the displayed phrases equal the phrases of that
\* game's newest batch in text, points and used flag.
C26_ShownIsNewest ==
    subscription = "active" /\ HasLatestBatch(Store) =>
        phrases = LatestBatch.phrases

\* A phrase has just been clicked and is displayed as used, the current
\* game having a batch.
C26_Witness ==
    /\ lastOp.op = "togglePhraseUsed"
    /\ HasLatestBatch(Store)
    /\ \E i \in 1..Len(phrases) : phrases[i].used

\* C27: after every completed page action totalScore is the sum of the
\* points of the displayed phrases whose used flag is true (0 to 6 for a
\* batch of 3 phrases), and togglePhraseUsed(i) called twice restores the
\* used flag of phrase i and totalScore.
C27_ScoreIsSumOfUsed ==
    /\ totalScore = SumUsed(phrases)
    /\ Len(phrases) = 3 => totalScore \in 0..6
    /\ \A i \in 1..Len(phrases) :
          \A twice \in {togglePhraseUsed(togglePhraseUsed(Call, i), i)} :
              /\ twice.phrases[i].used = phrases[i].used
              /\ twice.totalScore = totalScore

\* A phrase has just been clicked and counts in the score.
C27_Witness ==
    /\ lastOp.op = "togglePhraseUsed"
    /\ totalScore > 0
    /\ \E i \in 1..Len(phrases) : phrases[i].used

\* C28: isLoading is true whenever at least one generation request is in
\* flight, also when cycles overlap; it becomes false only when no request
\* remains in flight.
C28_LoadingWhileInFlight == Len(inFlight) > 0 => isLoading

\* C29: every used-flag change made with togglePhraseUsed(i) on a
\* displayed phrase is recorded in the store: after the call the current
\* game has a newest batch whose phrase i has the used value of displayed
\* phrase i, and the slot holds the aggregate with that change.
C29_ToggleRecorded ==
    [][lastOp'.op = "togglePhraseUsed" =>
        \A after \in {Store'} :
            /\ \E i \in 1..Len(phrases) : after.phrases[i].used # phrases[i].used
            /\ \A i \in 1..Len(phrases) :
                  after.phrases[i].used # phrases[i].used =>
                      /\ HasLatestBatch(after)
                      /\ i <= Len(after.gameObjs[Value(after).currentGameId]
                                      .batches[1].phrases)
                      /\ after.gameObjs[Value(after).currentGameId]
                              .batches[1].phrases[i].used = after.phrases[i].used
                      /\ after.slot = stringify(after, Value(after))]_vars


====
